---- MODULE Spec2Model ----
(***************************************************************************)
(* A model of the AIFF chunk decoders (chunks.rs), the Form Aggregate      *)
(* (FormChunk) and the scan loop of AiffReader::read (reader.rs).          *)
(*                                                                         *)
(* The byte stream is a sequence of bytes 0..255; a stream position p is   *)
(* 0-based, so the byte at position p is buf[p + 1].  A decoder is an      *)
(* operator from (buf, position at entry, tag, read_data, offset slot) to  *)
(* a result record [kind, val, pos, slot]:                                 *)
(*   kind = "Some"  : Ok(Some(val))                                        *)
(*   kind = "None"  : Ok(None)                                             *)
(*   kind = "Err"   : Err(val)                                             *)
(*   kind = "Panic" : a panic (unwrap of a short read, a failed seek, an   *)
(*                    invalid UTF-8 text, an allocation of a negative      *)
(*                    length)                                              *)
(* pos is the stream position after the call, slot the offset-output slot  *)
(* (curr_buf_pos) after the call.  Option values are sequences: None is    *)
(* the empty sequence and Some(x) the one-element sequence.                *)
(***************************************************************************)
EXTENDS Integers, Sequences, FiniteSets, TLC

\* ------------------------------------------------------------------ Option

None == <<>>

Some(x) == <<x>>

\* ------------------------------------------------------------- chunk tags

FORM == <<70, 79, 82, 77>>

AIFF == <<65, 73, 70, 70>>

AIFF_C == <<65, 73, 70, 67>>

COMMON == <<67, 79, 77, 77>>

SOUND == <<83, 83, 78, 68>>

MARKER == <<77, 65, 82, 75>>

INSTRUMENT == <<73, 78, 83, 84>>

MIDI == <<77, 73, 68, 73>>

RECORDING == <<65, 69, 83, 68>>

APPLICATION == <<65, 80, 80, 76>>

COMMENTS == <<67, 79, 77, 84>>

NAME == <<78, 65, 77, 69>>

AUTHOR == <<65, 85, 84, 72>>

COPYRIGHT == <<40, 99, 41, 32>>

ANNOTATION == <<65, 78, 78, 79>>

FVER == <<70, 86, 69, 82>>

CHAN == <<67, 72, 65, 78>>

BASC == <<66, 65, 83, 67>>

TRNS == <<84, 82, 78, 83>>

CATE == <<67, 65, 84, 69>>

ID3 == <<73, 68, 51>>

\* ------------------------------------------------- binary primitive reader

\* read_exact of n bytes at position p succeeds
CanRead(buf, p, n) == p >= 0 /\ n >= 0 /\ p + n <= Len(buf)

\* the n bytes at position p
Bytes(buf, p, n) == [i \in 1..n |-> buf[p + i]]

read_chunk_id(buf, p) == Bytes(buf, p, 4)

read_u8(buf, p) == buf[p + 1]

read_u16_be(buf, p) == buf[p + 1] * 256 + buf[p + 2]

\* the inputs keep the top bit of a u32 clear (the values stay below 2^31)
read_u32_be(buf, p) ==
    buf[p + 1] * 16777216 + buf[p + 2] * 65536 + buf[p + 3] * 256 + buf[p + 4]

read_i8_be(buf, p) == IF buf[p + 1] >= 128 THEN buf[p + 1] - 256 ELSE buf[p + 1]

read_i16_be(buf, p) ==
    LET u == buf[p + 1] * 256 + buf[p + 2]
    IN  IF u >= 32768 THEN u - 65536 ELSE u

read_i32_be(buf, p) ==
    LET hi == IF buf[p + 1] >= 128 THEN buf[p + 1] - 256 ELSE buf[p + 1]
    IN  hi * 16777216 + buf[p + 2] * 65536 + buf[p + 3] * 256 + buf[p + 4]

\* String::from_utf8 succeeds: the inputs hold ASCII bytes, which decode to
\* themselves, and the byte 255, which no UTF-8 text contains
ValidUtf8(bytes) == \A i \in 1..Len(bytes) : bytes[i] < 128

\* Rust's % on i32: the remainder has the sign of the dividend
RustRem2(n) == IF n >= 0 THEN n % 2 ELSE 0 - ((0 - n) % 2)

\* --------------------------------------------------------- decoder results

ROk(v, p, s) == [kind |-> "Some", val |-> v, pos |-> p, slot |-> s]

RSkipped(p, s) == [kind |-> "None", val |-> [skipped |-> TRUE], pos |-> p, slot |-> s]

RErr(e, p, s) == [kind |-> "Err", val |-> e, pos |-> p, slot |-> s]

RPanic(p, s) == [kind |-> "Panic", val |-> [panic |-> TRUE], pos |-> p, slot |-> s]

InvalidID(id) == [err |-> "InvalidID", id |-> id]

InvalidFormType(t) == [err |-> "InvalidFormType", id |-> t]

InvalidID3Version(v) == [err |-> "InvalidID3Version", version |-> v]

InvalidSize(expected, got) == [err |-> "InvalidSize", expected |-> expected, got |-> got]

InvalidData(what) == [err |-> "InvalidData", what |-> what]

\* a faulty variant: the slot is written after the size field was read
WriteSlot_AfterSize(slot, p) == IF slot # None THEN Some(p + 4) ELSE slot

\* a faulty variant: the slot is never written
WriteSlot_Never(slot, p) == slot

\* if let Some(ref mut pos) = curr_buf_pos { *pos = buf.position(); }
WriteSlot(slot, p) == IF slot # None THEN Some(p) ELSE slot

\* buf.seek(SeekFrom::Current(n)).unwrap() from position p: a seek before the
\* start of the stream fails, a seek past its end succeeds
SeekOk(p, n) == p + n >= 0

\* ------------------------------------------------- extended precision

\* parse_extended_precision_bytes: 1 sign bit, 15 exponent bits, 64 mantissa
\* bits with an explicit leading bit.  All-zero bytes are 0.0; an exponent of
\* all ones (infinity, NaN) is an error.  The inputs keep the mantissa in its
\* top 16 bits and the exponent at 16398 or above, where the value is the
\* integer mantissa16 * 2^(exponent - 16398) (16398 = bias 16383 + 15).
parse_extended_precision_bytes(b) ==
    LET exponent == (b[1] % 128) * 256 + b[2]
        mant16 == b[3] * 256 + b[4]
        sign == IF b[1] >= 128 THEN 0 - 1 ELSE 1
    IN  IF \A i \in 1..10 : b[i] = 0 THEN [ok |-> TRUE, value |-> 0]
        ELSE IF exponent = 32767 \/ exponent < 16398 \/ exponent > 16400
                \/ (\E i \in 5..10 : b[i] # 0)
             THEN [ok |-> FALSE, value |-> 0]
        ELSE [ok |-> TRUE, value |-> sign * mant16 * (2 ^ (exponent - 16398))]

\* ------------------------------------------------------------ FormChunk

EmptyForm ==
    [common |-> None, sound |-> None, comments |-> None, instrument |-> None,
     recording |-> None, texts |-> None, markers |-> None, midi |-> None,
     apps |-> None]

\* a faulty variant: the form type AIFC is accepted
FormChunk_parse_AcceptsAIFC(buf, p, id, read_data, slot) ==
    LET s == IF slot # None THEN Some(p) ELSE slot
    IN  IF id # FORM THEN RErr(InvalidID(id), p, s)
        ELSE IF ~CanRead(buf, p, 4) THEN RPanic(p, s)
        ELSE IF ~read_data THEN RSkipped(p + 4 + 4, s)
        ELSE IF ~CanRead(buf, p + 4, 4) THEN RPanic(p + 4, s)
        ELSE LET form_type == Bytes(buf, p + 4, 4)
             IN  IF form_type \in {AIFF, AIFF_C} THEN ROk(EmptyForm, p + 8, s)
                 ELSE RErr(InvalidFormType(form_type), p + 8, s)

FormChunk_parse(buf, p, id, read_data, slot) ==
    LET s == WriteSlot(slot, p)
    IN  IF id # FORM THEN RErr(InvalidID(id), p, s)
        ELSE IF ~CanRead(buf, p, 4) THEN RPanic(p, s)
        ELSE IF ~read_data THEN RSkipped(p + 4 + 4, s)
        ELSE IF ~CanRead(buf, p + 4, 4) THEN RPanic(p + 4, s)
        ELSE LET form_type == Bytes(buf, p + 4, 4)
             IN  IF form_type = AIFF THEN ROk(EmptyForm, p + 8, s)
                 ELSE RErr(InvalidFormType(form_type), p + 8, s)

\* ------------------------------------------------------------ CommonChunk

CommonChunk_parse(buf, p, id, read_data, slot) ==
    LET s == WriteSlot(slot, p)
    IN  IF id # COMMON THEN RErr(InvalidID(id), p, s)
        ELSE IF ~CanRead(buf, p, 12) THEN RPanic(p, s)
        ELSE IF ~read_data THEN RSkipped(p + 12 + 10, s)
        ELSE IF ~CanRead(buf, p + 12, 10) THEN RPanic(p + 12, s)
        ELSE LET sample_rate == parse_extended_precision_bytes(Bytes(buf, p + 12, 10))
             IN  IF ~sample_rate.ok
                 THEN RErr(InvalidData("Extended Precision"), p + 22, s)
                 ELSE ROk([size |-> read_i32_be(buf, p),
                           num_channels |-> read_i16_be(buf, p + 4),
                           num_sample_frames |-> read_u32_be(buf, p + 6),
                           bit_rate |-> read_i16_be(buf, p + 10),
                           sample_rate |-> sample_rate.value], p + 22, s)

\* ---------------------------------------------------------- SoundDataChunk

SoundDataChunk_parse(buf, p, id, read_data, slot) ==
    LET s == WriteSlot(slot, p)
    IN  IF id # SOUND THEN RErr(InvalidID(id), p, s)
        ELSE IF ~CanRead(buf, p, 12) THEN RPanic(p, s)
        ELSE LET size == read_i32_be(buf, p)
             IN  IF ~read_data
                 THEN IF SeekOk(p + 12, size) THEN RSkipped(p + 12 + size, s)
                      ELSE RPanic(p + 12, s)
                 ELSE IF size < 0 \/ ~CanRead(buf, p + 12, size) THEN RPanic(p + 12, s)
                 ELSE ROk([size |-> size,
                           offset |-> read_u32_be(buf, p + 4),
                           block_size |-> read_u32_be(buf, p + 8),
                           sound_data |-> Bytes(buf, p + 12, size)],
                          p + 12 + size, s)

\* --------------------------------------------------------------- TextChunk

TextChunkType(id) ==
    CASE id = NAME -> "Name"
      [] id = AUTHOR -> "Author"
      [] id = COPYRIGHT -> "Copyright"
      [] id = ANNOTATION -> "Annotation"
      [] OTHER -> "none"

\* a faulty variant: no pad byte is accounted for
buf_pos_offset_Zero(size) == 0

\* let buf_pos_offset = if size % 2 > 0 { 1 } else { 0 };
buf_pos_offset(size) == IF RustRem2(size) > 0 THEN 1 ELSE 0

\* a faulty variant: the skip mode does not skip the pad byte
TextChunk_parse_NoPadSkip(buf, p, id, read_data, slot) ==
    LET s == IF slot # None THEN Some(p) ELSE slot
    IN  IF TextChunkType(id) = "none" THEN RErr(InvalidID(id), p, s)
        ELSE IF ~CanRead(buf, p, 4) THEN RPanic(p, s)
        ELSE LET size == read_i32_be(buf, p)
                 off == IF RustRem2(size) > 0 THEN 1 ELSE 0
             IN  IF ~read_data
                 THEN IF SeekOk(p + 4, size) THEN RSkipped(p + 4 + size, s)
                      ELSE RPanic(p + 4, s)
                 ELSE IF size < 0 \/ ~CanRead(buf, p + 4, size) THEN RPanic(p + 4, s)
                 ELSE IF ~ValidUtf8(Bytes(buf, p + 4, size)) THEN RPanic(p + 4 + size, s)
                 ELSE ROk([chunk_type |-> TextChunkType(id),
                           size |-> size,
                           text |-> Bytes(buf, p + 4, size)],
                          p + 4 + size + off, s)

TextChunk_parse(buf, p, id, read_data, slot) ==
    LET s == WriteSlot(slot, p)
    IN  IF TextChunkType(id) = "none" THEN RErr(InvalidID(id), p, s)
        ELSE IF ~CanRead(buf, p, 4) THEN RPanic(p, s)
        ELSE LET size == read_i32_be(buf, p)
                 off == buf_pos_offset(size)
             IN  IF ~read_data
                 THEN IF SeekOk(p + 4, size + off) THEN RSkipped(p + 4 + size + off, s)
                      ELSE RPanic(p + 4, s)
                 ELSE IF size < 0 \/ ~CanRead(buf, p + 4, size) THEN RPanic(p + 4, s)
                 ELSE IF ~ValidUtf8(Bytes(buf, p + 4, size)) THEN RPanic(p + 4 + size, s)
                 ELSE ROk([chunk_type |-> TextChunkType(id),
                           size |-> size,
                           text |-> Bytes(buf, p + 4, size)],
                          p + 4 + size + off, s)

\* ----------------------------------------------------------- MIDIDataChunk

MIDIDataChunk_parse(buf, p, id, read_data, slot) ==
    LET s == WriteSlot(slot, p)
    IN  IF id # MIDI THEN RErr(InvalidID(id), p, s)
        ELSE IF ~CanRead(buf, p, 4) THEN RPanic(p, s)
        ELSE LET size == read_i32_be(buf, p)
             IN  IF ~read_data
                 THEN IF SeekOk(p + 4, size) THEN RSkipped(p + 4 + size, s)
                      ELSE RPanic(p + 4, s)
                 ELSE IF size < 0 \/ ~CanRead(buf, p + 4, size) THEN RPanic(p + 4, s)
                 ELSE ROk([size |-> size, data |-> Bytes(buf, p + 4, size)],
                          p + 4 + size, s)

\* ----------------------------------------------------- AudioRecordingChunk

\* a faulty variant: the skip mode does not validate the declared size
AudioRecordingChunk_parse_LateCheck(buf, p, id, read_data, slot) ==
    LET s == IF slot # None THEN Some(p) ELSE slot
    IN  IF id # RECORDING THEN RErr(InvalidID(id), p, s)
        ELSE IF ~CanRead(buf, p, 4) THEN RPanic(p, s)
        ELSE LET size == read_i32_be(buf, p)
             IN  IF ~read_data THEN RSkipped(p + 4 + 24, s)
                 ELSE IF size # 24 THEN RErr(InvalidSize(24, size), p + 4, s)
                 ELSE IF ~CanRead(buf, p + 4, 24) THEN RPanic(p + 4, s)
                 ELSE ROk([size |-> size, data |-> Bytes(buf, p + 4, 24)],
                          p + 4 + 24, s)

AudioRecordingChunk_parse(buf, p, id, read_data, slot) ==
    LET s == WriteSlot(slot, p)
    IN  IF id # RECORDING THEN RErr(InvalidID(id), p, s)
        ELSE IF ~CanRead(buf, p, 4) THEN RPanic(p, s)
        ELSE LET size == read_i32_be(buf, p)
             IN  IF size # 24 THEN RErr(InvalidSize(24, size), p + 4, s)
                 ELSE IF ~read_data THEN RSkipped(p + 4 + 24, s)
                 ELSE IF ~CanRead(buf, p + 4, 24) THEN RPanic(p + 4, s)
                 ELSE ROk([size |-> size, data |-> Bytes(buf, p + 4, 24)],
                          p + 4 + 24, s)

\* ------------------------------------------------ ApplicationSpecificChunk

ApplicationSpecificChunk_parse(buf, p, id, read_data, slot) ==
    LET s == WriteSlot(slot, p)
    IN  IF id # APPLICATION THEN RErr(InvalidID(id), p, s)
        ELSE IF ~CanRead(buf, p, 8) THEN RPanic(p, s)
        ELSE LET size == read_i32_be(buf, p)
             IN  IF ~read_data
                 THEN IF SeekOk(p + 8, size - 4) THEN RSkipped(p + 8 + (size - 4), s)
                      ELSE RPanic(p + 8, s)
                 ELSE IF size - 4 < 0 \/ ~CanRead(buf, p + 8, size - 4)
                      THEN RPanic(p + 8, s)
                 ELSE ROk([size |-> size,
                           application_signature |-> read_chunk_id(buf, p + 4),
                           data |-> [i \in 1..(size - 4) |-> read_i8_be(buf, p + 8 + i - 1)]],
                          p + 8 + (size - 4), s)

\* --------------------------------------------------------- InstrumentChunk

\* Loop::from_reader at position p (6 bytes)
Loop_from_reader(buf, p) ==
    [play_mode |-> read_i16_be(buf, p),
     begin_loop |-> read_i16_be(buf, p + 2),
     end_loop |-> read_i16_be(buf, p + 4)]

InstrumentChunk_parse(buf, p, id, read_data, slot) ==
    LET s == WriteSlot(slot, p)
    IN  IF id # INSTRUMENT THEN RErr(InvalidID(id), p, s)
        ELSE IF ~CanRead(buf, p, 24) THEN RPanic(p, s)
        ELSE ROk([size |-> read_i32_be(buf, p),
                  base_note |-> read_i8_be(buf, p + 4),
                  detune |-> read_i8_be(buf, p + 5),
                  low_note |-> read_i8_be(buf, p + 6),
                  high_note |-> read_i8_be(buf, p + 7),
                  low_velocity |-> read_i8_be(buf, p + 8),
                  high_velocity |-> read_i8_be(buf, p + 9),
                  gain |-> read_i16_be(buf, p + 10),
                  sustain_loop |-> Loop_from_reader(buf, p + 12),
                  release_loop |-> Loop_from_reader(buf, p + 18)],
                 p + 24, s)

\* ------------------------------------------------------------- MarkerChunk

\* read_pstring at position p: a length byte, the text, one pad byte when the
\* length is odd; [ok, text, pos]
read_pstring(buf, p) ==
    IF ~CanRead(buf, p, 1) THEN [ok |-> FALSE, text |-> <<>>, pos |-> p]
    ELSE LET len == read_u8(buf, p)
             pad == IF len % 2 > 0 THEN 1 ELSE 0
         IN  IF ~CanRead(buf, p + 1, len) \/ ~ValidUtf8(Bytes(buf, p + 1, len))
             THEN [ok |-> FALSE, text |-> <<>>, pos |-> p + 1]
             ELSE [ok |-> TRUE, text |-> Bytes(buf, p + 1, len), pos |-> p + 1 + len + pad]

\* Marker::from_reader at position p; [ok, marker, pos]
Marker_from_reader(buf, p) ==
    IF ~CanRead(buf, p, 6) THEN [ok |-> FALSE, marker |-> <<>>, pos |-> p]
    ELSE LET name == read_pstring(buf, p + 6)
         IN  [ok |-> name.ok,
              marker |-> [id |-> read_i16_be(buf, p),
                          position |-> read_u32_be(buf, p + 2),
                          marker_name |-> name.text],
              pos |-> name.pos]

\* for _ in 0..num_markers { markers.push(Marker::from_reader(buf)); }
RECURSIVE ReadMarkers(_, _, _, _)
ReadMarkers(buf, p, n, acc) ==
    IF n = 0 THEN [ok |-> TRUE, items |-> acc, pos |-> p]
    ELSE LET m == Marker_from_reader(buf, p)
         IN  IF ~m.ok THEN [ok |-> FALSE, items |-> acc, pos |-> m.pos]
             ELSE ReadMarkers(buf, m.pos, n - 1, Append(acc, m.marker))

MarkerChunk_parse(buf, p, id, read_data, slot) ==
    LET s == WriteSlot(slot, p)
    IN  IF id # MARKER THEN RErr(InvalidID(id), p, s)
        ELSE IF ~CanRead(buf, p, 6) THEN RPanic(p, s)
        ELSE LET num_markers == read_u16_be(buf, p + 4)
                 ms == ReadMarkers(buf, p + 6, num_markers, <<>>)
             IN  IF ~ms.ok THEN RPanic(ms.pos, s)
                 ELSE ROk([size |-> read_i32_be(buf, p),
                           num_markers |-> num_markers,
                           markers |-> ms.items], ms.pos, s)

\* ----------------------------------------------------------- CommentsChunk

\* Comment::from_reader at position p; [ok, comment, pos]
Comment_from_reader(buf, p) ==
    IF ~CanRead(buf, p, 8) THEN [ok |-> FALSE, comment |-> <<>>, pos |-> p]
    ELSE LET count == read_u16_be(buf, p + 6)
         IN  IF ~CanRead(buf, p + 8, count) \/ ~ValidUtf8(Bytes(buf, p + 8, count))
             THEN [ok |-> FALSE, comment |-> <<>>, pos |-> p + 8]
             ELSE [ok |-> TRUE,
                   comment |-> [timestamp |-> read_u32_be(buf, p),
                                marker_id |-> read_i16_be(buf, p + 4),
                                count |-> count,
                                text |-> Bytes(buf, p + 8, count)],
                   pos |-> p + 8 + count]

\* for _ in 0..num_comments { comments.push(Comment::from_reader(buf)) }
RECURSIVE ReadComments(_, _, _, _)
ReadComments(buf, p, n, acc) ==
    IF n = 0 THEN [ok |-> TRUE, items |-> acc, pos |-> p]
    ELSE LET c == Comment_from_reader(buf, p)
         IN  IF ~c.ok THEN [ok |-> FALSE, items |-> acc, pos |-> c.pos]
             ELSE ReadComments(buf, c.pos, n - 1, Append(acc, c.comment))

CommentsChunk_parse(buf, p, id, read_data, slot) ==
    LET s == WriteSlot(slot, p)
    IN  IF id # COMMENTS THEN RErr(InvalidID(id), p, s)
        ELSE IF ~CanRead(buf, p, 6) THEN RPanic(p, s)
        ELSE LET num_comments == read_u16_be(buf, p + 4)
                 cs == ReadComments(buf, p + 6, num_comments, <<>>)
             IN  IF ~cs.ok THEN RPanic(cs.pos, s)
                 ELSE ROk([size |-> read_i32_be(buf, p),
                           num_comments |-> num_comments,
                           comments |-> cs.items], cs.pos, s)

\* -------------------------------------------------------------- ID3v2Chunk

\* id3::Tag::read_from, the external tag codec, at position p: the 3-byte
\* marker, 2 version bytes, 1 flags byte, a 4-byte synchsafe size, then that
\* many bytes; [ok, tag, pos]
id3_Tag_read_from(buf, p) ==
    IF ~CanRead(buf, p, 10) \/ Bytes(buf, p, 3) # ID3
    THEN [ok |-> FALSE, tag |-> <<>>, pos |-> p]
    ELSE LET size == buf[p + 7] * 2097152 + buf[p + 8] * 16384
                       + buf[p + 9] * 128 + buf[p + 10]
         IN  IF (\E i \in 7..10 : buf[p + i] >= 128) \/ ~CanRead(buf, p + 10, size)
             THEN [ok |-> FALSE, tag |-> <<>>, pos |-> p + 10]
             ELSE [ok |-> TRUE,
                   tag |-> [version |-> Bytes(buf, p + 3, 2),
                            frames |-> Bytes(buf, p + 10, size)],
                   pos |-> p + 10 + size]

ID3v2Chunk_parse(buf, p, id, read_data, slot) ==
    LET s == WriteSlot(slot, p)
    IN  IF SubSeq(id, 1, 3) # ID3 /\ SubSeq(id, 2, 4) # ID3
        THEN RErr(InvalidID(id), p, s)
        ELSE IF ~CanRead(buf, p + 3, 2) THEN RPanic(p + 3, s)
        ELSE LET version == Bytes(buf, p + 3, 2)
             IN  IF version[1] > 4 \/ version[2] # 0
                 THEN RErr(InvalidID3Version(version), p, s)
                 ELSE LET tag == id3_Tag_read_from(buf, p)
                      IN  IF ~tag.ok THEN RPanic(tag.pos, s)
                          ELSE ROk([tag |-> tag.tag], tag.pos, s)

\* ------------------------------------------------------- decoder dispatch

TextIds == {NAME, AUTHOR, COPYRIGHT, ANNOTATION}

\* the chunk tags that have a decoder
ChunkIds ==
    {FORM, COMMON, SOUND, MARKER, INSTRUMENT, MIDI, RECORDING, APPLICATION,
     COMMENTS} \cup TextIds

\* the decoder the scan invokes for a chunk tag
Parse(buf, p, id, read_data, slot) ==
    CASE id = FORM -> FormChunk_parse(buf, p, id, read_data, slot)
      [] id = COMMON -> CommonChunk_parse(buf, p, id, read_data, slot)
      [] id = SOUND -> SoundDataChunk_parse(buf, p, id, read_data, slot)
      [] id = MARKER -> MarkerChunk_parse(buf, p, id, read_data, slot)
      [] id = INSTRUMENT -> InstrumentChunk_parse(buf, p, id, read_data, slot)
      [] id = MIDI -> MIDIDataChunk_parse(buf, p, id, read_data, slot)
      [] id = RECORDING -> AudioRecordingChunk_parse(buf, p, id, read_data, slot)
      [] id = APPLICATION -> ApplicationSpecificChunk_parse(buf, p, id, read_data, slot)
      [] id = COMMENTS -> CommentsChunk_parse(buf, p, id, read_data, slot)
      [] id \in TextIds -> TextChunk_parse(buf, p, id, read_data, slot)
      [] OTHER -> ID3v2Chunk_parse(buf, p, id, read_data, slot)

\* ---------------------------------------------------------- Form Aggregate

\* a faulty variant: the first Common chunk set is kept
set_common_FirstWins(f, c) == IF f.common = None THEN [f EXCEPT !.common = Some(c)] ELSE f

set_common(f, c) == [f EXCEPT !.common = Some(c)]

set_sound(f, c) == [f EXCEPT !.sound = Some(c)]

set_comments(f, c) == [f EXCEPT !.comments = Some(c)]

set_instrument(f, c) == [f EXCEPT !.instrument = Some(c)]

set_recording(f, c) == [f EXCEPT !.recording = Some(c)]

\* a faulty variant: a text chunk is put at the front of the list
add_text_chunk_Prepend(f, c) ==
    LET f1 == IF f.texts = None THEN [f EXCEPT !.texts = Some(<<>>)] ELSE f
    IN  [ok |-> TRUE, form |-> [f1 EXCEPT !.texts = Some(<<c>> \o f1.texts[1])]]

\* the add operations return [ok, form]: ok is FALSE where the code panics
\* ("vec should exist at this point")
add_text_chunk(f, c) ==
    LET f1 == IF f.texts = None THEN [f EXCEPT !.texts = Some(<<>>)] ELSE f
    IN  IF f1.texts # None
        THEN [ok |-> TRUE, form |-> [f1 EXCEPT !.texts = Some(Append(f1.texts[1], c))]]
        ELSE [ok |-> FALSE, form |-> f1]

add_marker_chunk(f, c) ==
    LET f1 == IF f.markers = None THEN [f EXCEPT !.markers = Some(<<>>)] ELSE f
    IN  IF f1.markers # None
        THEN [ok |-> TRUE, form |-> [f1 EXCEPT !.markers = Some(Append(f1.markers[1], c))]]
        ELSE [ok |-> FALSE, form |-> f1]

add_midi_chunk(f, c) ==
    LET f1 == IF f.midi = None THEN [f EXCEPT !.midi = Some(<<>>)] ELSE f
    IN  IF f1.midi # None
        THEN [ok |-> TRUE, form |-> [f1 EXCEPT !.midi = Some(Append(f1.midi[1], c))]]
        ELSE [ok |-> FALSE, form |-> f1]

add_app_chunk(f, c) ==
    LET f1 == IF f.apps = None THEN [f EXCEPT !.apps = Some(<<>>)] ELSE f
    IN  IF f1.apps # None
        THEN [ok |-> TRUE, form |-> [f1 EXCEPT !.apps = Some(Append(f1.apps[1], c))]]
        ELSE [ok |-> FALSE, form |-> f1]

RECURSIVE Gcd(_, _)
Gcd(a, b) == IF b = 0 THEN a ELSE Gcd(b, a % b)

Abs(n) == IF n < 0 THEN 0 - n ELSE n

\* the f64 quotient a / b of an unsigned a, as a fraction in lowest terms with
\* a positive denominator; a denominator of 0 stands for the values a division
\* by 0.0 gives (num 1: infinity, num 0: NaN)
F64Div(a, b) ==
    IF b = 0 THEN [num |-> IF a = 0 THEN 0 ELSE 1, den |-> 0]
    ELSE LET g == Gcd(Abs(a), Abs(b))
             sign == IF b < 0 THEN 0 - 1 ELSE 1
         IN  IF a = 0 THEN [num |-> 0, den |-> 1]
             ELSE [num |-> sign * (a \div g), den |-> Abs(b) \div g]

\* a faulty variant: the channel count is divided instead of the frame count
duration_PerChannel(f) ==
    IF f.common # None
    THEN Some(F64Div(f.common[1].num_channels, f.common[1].sample_rate))
    ELSE None

duration(f) ==
    IF f.common # None
    THEN Some(F64Div(f.common[1].num_sample_frames, f.common[1].sample_rate))
    ELSE None

\* u16::from_be_bytes([hi, lo])
u16_from_be_bytes(hi, lo) == hi * 256 + lo

\* a faulty variant: the location of a point is its index, not twice its index
samples_Stride1(f) ==
    LET s == f.sound[1]
        c == f.common[1]
        sample_points == c.num_sample_frames * c.num_channels
    IN  IF c.bit_rate > 16 THEN [ok |-> FALSE, vals |-> <<>>]
        ELSE IF c.bit_rate > 8
        THEN IF sample_points > 0 /\ sample_points + 1 > Len(s.sound_data)
             THEN [ok |-> FALSE, vals |-> <<>>]
             ELSE [ok |-> TRUE,
                   vals |-> [point \in 1..sample_points |->
                               u16_from_be_bytes(s.sound_data[point],
                                                 s.sound_data[point + 1])]]
        ELSE [ok |-> FALSE, vals |-> <<>>]

\* AiffReader::samples on the aggregate f, which holds a Sound and a Common
\* chunk: [ok, vals], ok = FALSE for a panic (unimplemented!(), panic!(), an
\* index past the end of sound_data). The inputs keep num_channels >= 0 and the
\* product below 2^31, so `as u32` and the multiplication are exact.
samples(f) ==
    LET s == f.sound[1]
        c == f.common[1]
        sample_points == c.num_sample_frames * c.num_channels
    IN  IF c.bit_rate > 16 THEN [ok |-> FALSE, vals |-> <<>>]
        ELSE IF c.bit_rate > 8
        THEN IF sample_points > 0 /\ 2 * sample_points > Len(s.sound_data)
             THEN [ok |-> FALSE, vals |-> <<>>]
             ELSE [ok |-> TRUE,
                   vals |-> [point \in 1..sample_points |->
                               LET loc == (point - 1) * 2
                               IN  u16_from_be_bytes(s.sound_data[loc + 1],
                                                     s.sound_data[loc + 2])]]
        ELSE [ok |-> FALSE, vals |-> <<>>]

\* ------------------------------------------------------------------ inputs

\* the number of chunks that follow the FORM header in a stream
MaxChunks == 2

BE16(n) == <<n \div 256, n % 256>>

BE32(n) == <<n \div 16777216, (n \div 65536) % 256, (n \div 256) % 256, n % 256>>

\* 80-bit extended precision patterns: 44100.0, 48000.0, 0.0 and a NaN
Rate44100 == <<64, 14, 172, 68, 0, 0, 0, 0, 0, 0>>

Rate48000 == <<64, 14, 187, 128, 0, 0, 0, 0, 0, 0>>

RateZero == <<0, 0, 0, 0, 0, 0, 0, 0, 0, 0>>

RateNaN == <<127, 255, 192, 0, 0, 0, 0, 0, 0, 0>>

Zeros(n) == [i \in 1..n |-> 0]

\* the chunks the decoders read to their end: a stream may hold them anywhere
WellFormed ==
    { COMMON \o BE32(18) \o BE16(2) \o BE32(4) \o BE16(16) \o Rate44100,
      COMMON \o BE32(18) \o BE16(1) \o BE32(3) \o BE16(12) \o Rate48000,
      COMMON \o BE32(18) \o BE16(1) \o BE32(2) \o BE16(8) \o RateZero,
      SOUND \o BE32(16) \o BE32(0) \o BE32(0) \o [i \in 1..16 |-> i],
      MARKER \o BE32(10) \o BE16(1) \o BE16(1) \o BE32(5) \o <<1, 97, 0>>,
      INSTRUMENT \o BE32(20) \o <<60, 0, 0, 127, 1, 127>> \o BE16(6)
          \o BE16(1) \o BE16(1) \o BE16(2) \o BE16(0) \o BE16(0) \o BE16(0),
      MIDI \o BE32(2) \o <<144, 60>>,
      RECORDING \o BE32(24) \o Zeros(24),
      APPLICATION \o BE32(6) \o <<115, 116, 111, 99>> \o <<1, 200>>,
      COMMENTS \o BE32(12) \o BE16(1) \o BE32(7) \o BE16(1) \o BE16(2) \o <<104, 105>>,
      NAME \o BE32(3) \o <<97, 98, 99>> \o <<0>>,
      AUTHOR \o BE32(2) \o <<97, 98>>,
      COPYRIGHT \o BE32(1) \o <<120>> \o <<0>>,
      ANNOTATION \o BE32(0),
      ID3 \o <<3, 0, 0>> \o <<0, 0, 0, 2>> \o <<1, 2>>,
      <<84, 65, 71, 0>> }

\* the chunks that end a stream: truncated ones, ones with a wrong or negative
\* declared size, a bad sample rate or bit depth, a bad text, a comment of odd
\* length with its pad byte, embedded tag metadata of an
\* unsupported version, one byte off the chunk alignment or shorter than its
\* own size, and tags without a decoder
Malformed ==
    { COMMON \o BE32(18) \o BE16(1) \o BE32(2) \o BE16(16) \o RateNaN,
      COMMON \o BE32(18) \o BE16(1) \o BE32(2) \o BE16(24) \o Rate44100,
      SOUND \o BE32(6) \o BE32(0) \o BE32(0) \o <<0, 1>>,
      SOUND \o <<255, 255, 255, 240>> \o BE32(0) \o BE32(0),
      RECORDING \o BE32(23) \o Zeros(24),
      RECORDING \o BE32(24) \o Zeros(3),
      ANNOTATION \o BE32(2) \o <<255, 97>>,
      COMMENTS \o BE32(12) \o BE16(1) \o BE32(7) \o BE16(1) \o BE16(1) \o <<104>> \o <<0>>,
      ID3 \o <<5, 0, 0>> \o <<0, 0, 0, 0>>,
      <<0>> \o ID3 \o <<3, 0, 0>> \o <<0, 0, 0, 0>>,
      ID3 \o <<3, 0, 0>> \o <<0, 0, 0, 9>> \o <<1>>,
      FVER \o BE32(4) \o Zeros(4),
      CHAN \o BE32(0),
      <<88, 88, 88, 88>> \o BE32(2) \o <<7, 7>> }

Templates == WellFormed \cup Malformed

\* the stream's first bytes: a FORM header of type AIFF
GoodHeader == FORM \o BE32(4) \o AIFF

\* FORM headers that fail: type AIFC, another type, another outer tag, a
\* header cut short, a stream too short for a tag
BadHeaders ==
    { FORM \o BE32(4) \o AIFF_C,
      FORM \o BE32(4) \o <<65, 73, 70, 88>>,
      <<82, 73, 70, 70>> \o BE32(4) \o AIFF,
      FORM \o BE32(4) \o <<65, 73>>,
      <<70, 79>> }

RECURSIVE Concat(_)
Concat(chunks) ==
    IF chunks = <<>> THEN <<>> ELSE Head(chunks) \o Concat(Tail(chunks))

\* up to MaxChunks chunks, all but the last well-formed
ChunkSeqs ==
    {<<>>} \cup UNION {{Append(cs, t) : cs \in [1..n -> WellFormed], t \in Templates} :
                        n \in 0..(MaxChunks - 1)}

Streams == BadHeaders \cup {GoodHeader \o Concat(cs) : cs \in ChunkSeqs}

\* ------------------------------------------------------------------- state

VARIABLES
    buf,          \* the bytes of the source
    read_data,    \* the mode of this scan: TRUE decodes, FALSE only locates
    pos,          \* the stream position of reader.buf
    pc,           \* Initial, Scanning, Done, Failed (read returned Err), Panicked
    form,         \* read's local aggregate: None before the FORM chunk is built
    form_chunk,   \* reader.form_chunk
    id3v2_tags,   \* reader.id3v2_tags
    err,          \* the error read returned
    curr_buf_pos, \* the offset-output slot handed to every decoder
    chunk_pos,    \* the offset cache: chunk tag -> offset just past the tag
    last,         \* history: the last decoder call [id, entry, slot0, read_data, res]
    calls,        \* history: the aggregate mutations made, in order, [op, arg]
    scanned,      \* history: chunk tag -> the result of its last inline decoder call
    reread,       \* the last per-tag re-read [id, offset, res]
    dur,          \* the result of the last call of duration
    points        \* the result of the last call of samples: [ok, vals]

vars ==
    <<buf, read_data, pos, pc, form, form_chunk, id3v2_tags, err, curr_buf_pos,
      chunk_pos, last, calls, scanned, reread, dur, points>>

\* self.buf.available(): the bytes left in the stream
available == IF Len(buf) > pos THEN Len(buf) - pos ELSE 0

\* the scan stores the offset a decoder wrote into the slot under the chunk's tag
CacheUpdate(cache, id, slot) ==
    IF id \in ChunkIds /\ slot # None THEN [cache EXCEPT ![id] = slot] ELSE cache

Init ==
    /\ buf \in Streams
    /\ read_data \in BOOLEAN
    /\ curr_buf_pos \in {None, Some(0)}
    /\ pos = 0
    /\ pc = "Initial"
    /\ form = None
    /\ form_chunk = None
    /\ id3v2_tags = <<>>
    /\ err = None
    /\ chunk_pos = [id \in ChunkIds |-> None]
    /\ last = None
    /\ calls = <<>>
    /\ scanned = [id \in ChunkIds |-> None]
    /\ reread = None
    /\ dur = None
    /\ points = None

\* while self.buf.available() >= 4
CanScan == pc = "Scanning" /\ available >= 4

\* what every decoder call leaves behind: the slot, the cache, the history
Called(id, entry, mode, r) ==
    /\ last' = Some([id |-> id, entry |-> entry, slot0 |-> curr_buf_pos,
                     read_data |-> mode, res |-> r])
    /\ curr_buf_pos' = r.slot
    /\ chunk_pos' = CacheUpdate(chunk_pos, id, r.slot)

\* a faulty variant: the aggregate is stored in reader.form_chunk as soon as
\* the FORM chunk is built, before the sub-chunks are scanned
ReadForm_StoresEarly ==
    /\ pc = "Initial"
    /\ IF ~CanRead(buf, pos, 4)
       THEN /\ pc' = "Panicked"
            /\ UNCHANGED <<pos, form, form_chunk, err, curr_buf_pos, chunk_pos, last,
                           scanned>>
       ELSE LET form_id == read_chunk_id(buf, pos)
                r == FormChunk_parse(buf, pos + 4, form_id, read_data, curr_buf_pos)
            IN  /\ pos' = r.pos
                /\ Called(form_id, pos + 4, read_data, r)
                /\ scanned' = IF form_id \in ChunkIds
                              THEN [scanned EXCEPT ![form_id] = Some(r)]
                              ELSE scanned
                /\ form' = IF r.kind = "Some" THEN Some(r.val) ELSE None
                /\ form_chunk' = form'
                /\ err' = IF r.kind = "Err" THEN Some(r.val) ELSE None
                /\ pc' = CASE r.kind = "Err" -> "Failed"
                           [] r.kind = "Panic" -> "Panicked"
                           [] OTHER -> "Scanning"
    /\ UNCHANGED <<buf, read_data, id3v2_tags, calls, reread, dur, points>>

\* let form_id = read_chunk_id(&mut self.buf);
\* let mut form = FormChunk::parse(&mut self.buf, form_id)?;
ReadForm ==
    /\ pc = "Initial"
    /\ IF ~CanRead(buf, pos, 4)
       THEN /\ pc' = "Panicked"
            /\ UNCHANGED <<pos, form, err, curr_buf_pos, chunk_pos, last, scanned>>
       ELSE LET form_id == read_chunk_id(buf, pos)
                r == FormChunk_parse(buf, pos + 4, form_id, read_data, curr_buf_pos)
            IN  /\ pos' = r.pos
                /\ Called(form_id, pos + 4, read_data, r)
                /\ scanned' = IF form_id \in ChunkIds
                              THEN [scanned EXCEPT ![form_id] = Some(r)]
                              ELSE scanned
                /\ form' = IF r.kind = "Some" THEN Some(r.val) ELSE None
                /\ err' = IF r.kind = "Err" THEN Some(r.val) ELSE None
                /\ pc' = CASE r.kind = "Err" -> "Failed"
                           [] r.kind = "Panic" -> "Panicked"
                           [] OTHER -> "Scanning"
    /\ UNCHANGED <<buf, read_data, form_chunk, id3v2_tags, calls, reread, dur, points>>

\* the aggregate mutation an arm makes with the decoded chunk c; [ok, form]
Fold(op, f, c) ==
    CASE op = "set_common" -> [ok |-> TRUE, form |-> set_common(f, c)]
      [] op = "set_sound" -> [ok |-> TRUE, form |-> set_sound(f, c)]
      [] op = "set_comments" -> [ok |-> TRUE, form |-> set_comments(f, c)]
      [] op = "set_instrument" -> [ok |-> TRUE, form |-> set_instrument(f, c)]
      [] op = "set_recording" -> [ok |-> TRUE, form |-> set_recording(f, c)]
      [] op = "add_text_chunk" -> add_text_chunk(f, c)
      [] op = "add_marker_chunk" -> add_marker_chunk(f, c)
      [] op = "add_midi_chunk" -> add_midi_chunk(f, c)
      [] op = "add_app_chunk" -> add_app_chunk(f, c)

\* one arm of the match on the tag: the decoder of the chunk, unwrapped, and
\* the value folded into the aggregate by the operation op
Arm(ids, op) ==
    /\ CanScan
    /\ read_chunk_id(buf, pos) \in ids
    /\ LET id == read_chunk_id(buf, pos)
           r == Parse(buf, pos + 4, id, read_data, curr_buf_pos)
       IN  /\ pos' = r.pos
           /\ Called(id, pos + 4, read_data, r)
           /\ scanned' = [scanned EXCEPT ![id] = Some(r)]
           /\ IF r.kind = "Some" /\ form # None
              THEN LET f == Fold(op, form[1], r.val)
                   IN  /\ form' = Some(f.form)
                       /\ calls' = Append(calls, [op |-> op, arg |-> r.val])
                       /\ pc' = IF f.ok THEN "Scanning" ELSE "Panicked"
              ELSE /\ UNCHANGED <<form, calls>>
                   /\ pc' = IF r.kind \in {"Some", "None"} THEN "Scanning" ELSE "Panicked"
    /\ UNCHANGED <<buf, read_data, form_chunk, id3v2_tags, err, reread, dur, points>>

StepCommon == CanScan /\ Arm({COMMON}, "set_common")

StepSound == CanScan /\ Arm({SOUND}, "set_sound")

StepMarker == CanScan /\ Arm({MARKER}, "add_marker_chunk")

StepInstrument == CanScan /\ Arm({INSTRUMENT}, "set_instrument")

StepMidi == CanScan /\ Arm({MIDI}, "add_midi_chunk")

StepRecording == CanScan /\ Arm({RECORDING}, "set_recording")

StepApplication == CanScan /\ Arm({APPLICATION}, "add_app_chunk")

StepComments == CanScan /\ Arm({COMMENTS}, "set_comments")

StepText == CanScan /\ Arm(TextIds, "add_text_chunk")

\* a step that reads the tag and decodes nothing: the stream stays just past
\* the tag and the scan goes on (next) or panics
TagOnly(next) ==
    /\ pos' = pos + 4
    /\ pc' = next
    /\ UNCHANGED <<buf, read_data, form, form_chunk, id3v2_tags, err, curr_buf_pos,
                   chunk_pos, last, calls, scanned, reread, dur, points>>

\* ids::FVER => unimplemented!("FVER chunk detected")
StepFver == CanScan /\ read_chunk_id(buf, pos) = FVER /\ TagOnly("Panicked")

\* ids::CHAN | ids::BASC | ids::TRNS | ids::CATE => unimplemented!(..)
StepApple ==
    CanScan /\ read_chunk_id(buf, pos) \in {CHAN, BASC, TRNS, CATE} /\ TagOnly("Panicked")

IsID3(id) == SubSeq(id, 1, 3) = ID3

IsID3Shifted(id) == ~IsID3(id) /\ SubSeq(id, 2, 4) = ID3

TAG == <<84, 65, 71>>

IsTagV1(id) ==
    /\ ~IsID3(id) /\ ~IsID3Shifted(id)
    /\ (SubSeq(id, 1, 3) = TAG \/ SubSeq(id, 2, 4) = TAG)

\* [84, 65, 71, _] | [_, 84, 65, 71] => println!("v1 id3")
StepTagV1 == CanScan /\ IsTagV1(read_chunk_id(buf, pos)) /\ TagOnly("Scanning")

\* id => println!("other chunk ..")
StepOther ==
    /\ CanScan
    /\ LET id == read_chunk_id(buf, pos)
       IN  /\ id \notin ChunkIds \ {FORM}
           /\ id \notin {FVER, CHAN, BASC, TRNS, CATE}
           /\ ~IsID3(id) /\ ~IsID3Shifted(id) /\ ~IsTagV1(id)
    /\ TagOnly("Scanning")

\* the two embedded tag-metadata arms: seek back by `back` bytes to the
\* marker, decode; a decoded tag is pushed, an error skips 3 bytes
ID3Arm(back) ==
    /\ LET id == read_chunk_id(buf, pos)
           entry == pos + 4 - back
           r == ID3v2Chunk_parse(buf, entry, id, read_data, curr_buf_pos)
       IN  /\ Called(id, entry, read_data, r)
           /\ pos' = IF r.kind = "Err" THEN r.pos + 3 ELSE r.pos
           /\ id3v2_tags' = IF r.kind = "Some" THEN Append(id3v2_tags, r.val)
                            ELSE id3v2_tags
           /\ pc' = IF r.kind = "Panic" THEN "Panicked" ELSE "Scanning"
    /\ UNCHANGED <<buf, read_data, form, form_chunk, err, calls, scanned, reread, dur, points>>

StepID3 == CanScan /\ IsID3(read_chunk_id(buf, pos)) /\ ID3Arm(4)

StepID3Shifted == CanScan /\ IsID3Shifted(read_chunk_id(buf, pos)) /\ ID3Arm(3)

\* the loop ends: self.form_chunk = Some(form); Ok(())
Finish ==
    /\ pc = "Scanning"
    /\ available < 4
    /\ form_chunk' = form
    /\ pc' = "Done"
    /\ UNCHANGED <<buf, read_data, pos, form, id3v2_tags, err, curr_buf_pos, chunk_pos,
                   last, calls, scanned, reread, dur, points>>

\* the per-tag read: seek to the offset the cache holds for the tag, decode,
\* store the offset the decoder observed
ReRead(id) ==
    /\ pc = "Done"
    /\ chunk_pos[id] # None
    /\ LET offset == chunk_pos[id][1]
           r == Parse(buf, offset, id, TRUE, curr_buf_pos)
       IN  /\ pos' = r.pos
           /\ Called(id, offset, TRUE, r)
           /\ reread' = Some([id |-> id, offset |-> offset, res |-> r])
           /\ pc' = IF r.kind = "Panic" THEN "Panicked" ELSE "Done"
    /\ UNCHANGED <<buf, read_data, form, form_chunk, id3v2_tags, err, calls, scanned, dur, points>>

\* reader.form_chunk.duration()
CallDuration ==
    /\ pc = "Done"
    /\ form_chunk # None
    /\ dur' = Some(duration(form_chunk[1]))
    /\ UNCHANGED <<buf, read_data, pos, pc, form, form_chunk, id3v2_tags, err,
                   curr_buf_pos, chunk_pos, last, calls, scanned, reread, points>>

\* reader.samples(), called on a reader whose aggregate holds the Sound and
\* the Common chunk the three unwraps ask for
CallSamples ==
    /\ pc = "Done"
    /\ form_chunk # None
    /\ form_chunk[1].sound # None
    /\ form_chunk[1].common # None
    /\ points' = Some(samples(form_chunk[1]))
    /\ pc' = IF samples(form_chunk[1]).ok THEN "Done" ELSE "Panicked"
    /\ UNCHANGED <<buf, read_data, pos, form, form_chunk, id3v2_tags, err,
                   curr_buf_pos, chunk_pos, last, calls, scanned, reread, dur>>

Next ==
    \/ ReadForm
    \/ StepCommon
    \/ StepSound
    \/ StepMarker
    \/ StepInstrument
    \/ StepMidi
    \/ StepRecording
    \/ StepApplication
    \/ StepComments
    \/ StepText
    \/ StepFver
    \/ StepID3
    \/ StepID3Shifted
    \/ StepTagV1
    \/ StepApple
    \/ StepOther
    \/ Finish
    \/ \E id \in ChunkIds : ReRead(id)
    \/ CallDuration
    \/ CallSamples

Spec == Init /\ [][Next]_vars

\* ------------------------------------------------------------------ claims

\* the last decoder call was made by the decoder of a chunk tag
LastIsChunk == last # None /\ last[1].id \in ChunkIds

\* C1: for every chunk decoder and every chunk its decode mode reads without a
\* panic, the skip mode and the decode mode started at the same position just
\* past the tag leave the stream at the same position
C1_SkipDecodeSamePosition ==
    LastIsChunk =>
        LET c == last[1]
            other == Parse(buf, c.entry, c.id, ~c.read_data, c.slot0)
            dec == IF c.read_data THEN c.res ELSE other
            skp == IF c.read_data THEN other ELSE c.res
        IN  dec.kind # "Panic" => skp.kind # "Panic" /\ skp.pos = dec.pos

\* a text chunk of odd length 3 was skipped: 4 + 3 + 1 bytes consumed
C1_Witness ==
    /\ LastIsChunk
    /\ last[1].id = NAME
    /\ ~last[1].read_data
    /\ last[1].res.kind = "None"
    /\ read_i32_be(buf, last[1].entry) = 3
    /\ pos = last[1].entry + 8

\* C2: a decoder called with the skip flag returns Ok(None) and never a
\* decoded value
C2_SkipReturnsNone ==
    last # None /\ ~last[1].read_data /\ last[1].res.kind \in {"Some", "None"}
        => last[1].res.kind = "None"

\* C3 as stated: after every decoder call the slot holds the position at entry,
\* whatever it held before
C3_SlotAlwaysWritten ==
    last # None => last[1].res.slot = Some(last[1].entry)

\* C3 amended: a slot that held a value holds the position at entry (just past
\* the tag, where the size field starts) after the call; a slot that was empty
\* stays empty
C3_SlotWrittenWhenPresent ==
    last # None =>
        LET c == last[1]
        IN  /\ c.slot0 # None => c.res.slot = Some(c.entry)
            /\ c.slot0 = None => c.res.slot = None
            /\ curr_buf_pos = c.res.slot
            /\ c.id \in ChunkIds => read_chunk_id(buf, c.entry - 4) = c.id

\* a slot holding the offset of an earlier chunk was overwritten
C3_Witness ==
    /\ last # None
    /\ last[1].slot0 # None
    /\ last[1].slot0 # Some(0)
    /\ last[1].slot0 # Some(last[1].entry)
    /\ last[1].res.slot = Some(last[1].entry)

\* C4: after a decoding scan, the per-tag re-read of a located chunk yields the
\* value its decoder produced inline during the scan, and records the offset
\* the cache already held
C4_ReReadSameValue ==
    reread # None /\ read_data =>
        LET rr == reread[1]
            inl == scanned[rr.id]
        IN  /\ inl # None
            /\ inl[1].kind = "Some"
            /\ rr.res.kind = "Some"
            /\ rr.res.val = inl[1].val
            /\ rr.res.slot = Some(rr.offset)
            /\ chunk_pos[rr.id] = Some(rr.offset)

\* a Common chunk was re-read after a decoding scan
C4_Witness ==
    /\ reread # None
    /\ read_data
    /\ reread[1].id = COMMON
    /\ reread[1].res.kind = "Some"
    /\ reread[1].offset > 12

\* the stream starts with the tag FORM, a size, and a 4-byte form type
HasFormHeader == CanRead(buf, 0, 12) /\ Bytes(buf, 0, 4) = FORM

\* C5 as stated: whenever the form type is not AIFF, FormChunk::parse fails
\* with InvalidFormType and read returns that error with form_chunk absent
C5_BadFormTypeFails ==
    pc # "Initial" /\ HasFormHeader /\ Bytes(buf, 8, 4) # AIFF =>
        /\ pc = "Failed"
        /\ err = Some(InvalidFormType(Bytes(buf, 8, 4)))
        /\ form_chunk = None

\* C5 amended: an aggregate exists only for the tag FORM and the form type
\* AIFF; in decode mode any other form type makes read return InvalidFormType
\* with those 4 bytes and form_chunk absent; in skip mode the form type is not
\* looked at: no error and no aggregate
C5_FormOnlyForAIFF ==
    /\ form # None \/ form_chunk # None =>
           HasFormHeader /\ Bytes(buf, 8, 4) = AIFF /\ read_data
    /\ pc # "Initial" /\ HasFormHeader /\ Bytes(buf, 8, 4) # AIFF =>
           IF read_data
           THEN /\ pc = "Failed"
                /\ err = Some(InvalidFormType(Bytes(buf, 8, 4)))
                /\ form = None
                /\ form_chunk = None
           ELSE /\ pc # "Failed"
                /\ err = None
                /\ form = None
                /\ form_chunk = None

\* read returned InvalidFormType(AIFC)
C5_Witness ==
    /\ pc = "Failed"
    /\ read_data
    /\ Bytes(buf, 8, 4) = AIFF_C
    /\ err = Some(InvalidFormType(AIFF_C))
    /\ form_chunk = None

\* C6: AudioRecordingChunk::parse with declared size s fails with
\* InvalidSize(24, s) when s # 24, in both modes, the stream just past the
\* size field; with s = 24 it succeeds and leaves the stream 24 bytes further
\* (a decode of a stream that ends before the 24th byte is a short read)
C6_RecordingSize ==
    LastIsChunk /\ last[1].id = RECORDING /\ CanRead(buf, last[1].entry, 4) =>
        LET c == last[1]
            s == read_i32_be(buf, c.entry)
        IN  IF s # 24
            THEN /\ c.res.kind = "Err"
                 /\ c.res.val = InvalidSize(24, s)
                 /\ c.res.pos = c.entry + 4
            ELSE IF c.read_data /\ ~CanRead(buf, c.entry + 4, 24)
                 THEN c.res.kind = "Panic"
                 ELSE /\ c.res.kind = (IF c.read_data THEN "Some" ELSE "None")
                      /\ c.res.pos = c.entry + 4 + 24

\* a declared size of 23 was refused in skip mode
C6_Witness ==
    /\ LastIsChunk
    /\ last[1].id = RECORDING
    /\ ~last[1].read_data
    /\ last[1].res.kind = "Err"
    /\ last[1].res.val = InvalidSize(24, 23)
    /\ last[1].res.pos = last[1].entry + 4

\* C7: TextChunk::parse on a chunk of declared size s >= 0 (in decode mode: its
\* s bytes in the stream and valid UTF-8) advances the stream by 4 + s bytes
\* for an even s and 4 + s + 1 for an odd s; the decoded text is the s payload
\* bytes without the pad byte
C7_TextAdvance ==
    LastIsChunk /\ last[1].id \in TextIds /\ CanRead(buf, last[1].entry, 4) =>
        LET c == last[1]
            s == read_i32_be(buf, c.entry)
            readable == CanRead(buf, c.entry + 4, s)
                          /\ ValidUtf8(Bytes(buf, c.entry + 4, s))
        IN  s >= 0 /\ (c.read_data => readable) =>
                /\ c.res.pos = c.entry + 4 + s + (s % 2)
                /\ c.read_data =>
                       /\ c.res.kind = "Some"
                       /\ c.res.val.size = s
                       /\ c.res.val.text = Bytes(buf, c.entry + 4, s)
                /\ ~c.read_data => c.res.kind = "None"

\* "abc" was decoded and the stream stands at the next tag, 8 bytes on
C7_Witness ==
    /\ LastIsChunk
    /\ last[1].id = NAME
    /\ last[1].read_data
    /\ last[1].res.kind = "Some"
    /\ last[1].res.val.text = <<97, 98, 99>>
    /\ last[1].res.pos = last[1].entry + 8
    /\ CanRead(buf, last[1].res.pos, 4)
    /\ read_chunk_id(buf, last[1].res.pos) \in ChunkIds

\* the mutations of one operation, in call order, and the argument of the last
CallsOf(op) == SelectSeq(calls, LAMBDA c : c.op = op)

ArgsOf(op) == [i \in 1..Len(CallsOf(op)) |-> CallsOf(op)[i].arg]

LastArg(op) ==
    IF CallsOf(op) = <<>> THEN None ELSE Some(CallsOf(op)[Len(CallsOf(op))].arg)

Singletons == {"common", "sound", "comments", "instrument", "recording"}

Lists == {"texts", "markers", "midi", "apps"}

SetterOf(field) ==
    CASE field = "common" -> "set_common"
      [] field = "sound" -> "set_sound"
      [] field = "comments" -> "set_comments"
      [] field = "instrument" -> "set_instrument"
      [] field = "recording" -> "set_recording"
      [] field = "texts" -> "add_text_chunk"
      [] field = "markers" -> "add_marker_chunk"
      [] field = "midi" -> "add_midi_chunk"
      [] field = "apps" -> "add_app_chunk"

\* this step made one mutation of the aggregate, by the operation of `field`
Mutates(field) ==
    /\ form # None
    /\ form' # None
    /\ Len(calls') = Len(calls) + 1
    /\ calls'[Len(calls')].op = SetterOf(field)

\* this step left every field of the aggregate but `field` as it was
OnlyChanges(field) ==
    \A g \in (Singletons \cup Lists) \ {field} : form'[1][g] = form[1][g]

\* C8: every singleton field holds the argument of the last call of its own
\* setter, or is absent if the setter was never called; a setter changes its
\* own field only
C8_SingletonLastWins ==
    /\ [](form # None =>
            \A g \in Singletons : form[1][g] = LastArg(SetterOf(g)))
    /\ [][\A g \in Singletons : Mutates(g) => OnlyChanges(g)]_vars

\* two different Common chunks were set and the second one is stored
C8_Witness ==
    /\ form # None
    /\ Len(calls) = 2
    /\ calls[1].op = "set_common"
    /\ calls[2].op = "set_common"
    /\ calls[1].arg # calls[2].arg
    /\ form[1].common = Some(calls[2].arg)
    /\ form[1].texts = None

\* C9: every repeatable list is absent exactly when its add operation was
\* never called, and otherwise holds the arguments of all its calls in call
\* order; an add operation never panics and changes its own list only
C9_ListsInCallOrder ==
    /\ [](form # None =>
            \A g \in Lists :
                IF CallsOf(SetterOf(g)) = <<>> THEN form[1][g] = None
                ELSE form[1][g] = Some(ArgsOf(SetterOf(g))))
    /\ [][\A g \in Lists : Mutates(g) => OnlyChanges(g) /\ pc' # "Panicked"]_vars

\* two different text chunks were added and the list holds them in call order
C9_Witness ==
    /\ form # None
    /\ Len(calls) = 2
    /\ calls[1].op = "add_text_chunk"
    /\ calls[2].op = "add_text_chunk"
    /\ calls[1].arg # calls[2].arg
    /\ form[1].texts = Some(<<calls[1].arg, calls[2].arg>>)
    /\ form[1].markers = None

\* C10: duration returns None exactly when no Common chunk was set; with a
\* Common chunk of a positive sample rate set, it returns the quotient
\* num_sample_frames / sample_rate of the Common chunk set last
C10_Duration ==
    dur # None =>
        LET common == LastArg("set_common")
            d == dur[1]
        IN  /\ d = None <=> common = None
            /\ common # None /\ common[1].sample_rate > 0 =>
                   /\ d # None
                   /\ d[1].den > 0
                   /\ d[1].num * common[1].sample_rate
                        = common[1].num_sample_frames * d[1].den

\* 3 frames at 48000 Hz, set after another Common chunk: 1/16000 s
C10_Witness ==
    /\ dur # None
    /\ Len(CallsOf("set_common")) = 2
    /\ LastArg("set_common")[1].sample_rate = 48000
    /\ LastArg("set_common")[1].num_sample_frames = 3
    /\ dur[1] = Some([num |-> 1, den |-> 16000])

\* a tag of the scan that has no decoder and is no embedded tag-metadata
\* signature
Unrecognised(id) ==
    /\ id \notin ChunkIds
    /\ ~IsID3(id) /\ ~IsID3Shifted(id) /\ ~IsTagV1(id)

\* C11: a scan step on an unrecognised tag (FVER, CHAN, BASC, TRNS and CATE
\* included) whose 4-byte size can be read ends just past the chunk, at the tag
\* position + 8 + declared size; the aggregate and the tag-metadata list are
\* unchanged and the scan goes on
C11_UnknownSkippedBySize ==
    [][(/\ CanScan
        /\ Unrecognised(read_chunk_id(buf, pos))
        /\ CanRead(buf, pos + 4, 4)
        /\ SeekOk(pos + 8, read_i32_be(buf, pos + 4)))
       => /\ pos' = pos + 8 + read_i32_be(buf, pos + 4)
          /\ pc' = "Scanning"
          /\ form' = form
          /\ id3v2_tags' = id3v2_tags]_vars

\* the position of the first byte of the tag-metadata marker in the 4-byte
\* window the scan read at pos
MarkerStart == IF IsID3(read_chunk_id(buf, pos)) THEN pos ELSE pos + 1

\* the marker in the window is followed by a version the decoder refuses, or
\* by a tag the external codec cannot read
ID3Unreadable ==
    /\ CanScan
    /\ IsID3(read_chunk_id(buf, pos)) \/ IsID3Shifted(read_chunk_id(buf, pos))
    /\ CanRead(buf, MarkerStart + 3, 2)
    /\ \/ buf[MarkerStart + 4] > 4
       \/ buf[MarkerStart + 5] # 0
       \/ ~id3_Tag_read_from(buf, MarkerStart).ok

\* C12: a scan step on a tag-metadata marker whose version check fails or whose
\* tag the external codec cannot read does not end the scan: nothing is added
\* to the tag-metadata list, the stream resumes 3 bytes past the first byte of
\* the marker, and the scan goes on
C12_ID3FailureRecovered ==
    [][ID3Unreadable
       => /\ pc' = "Scanning"
          /\ id3v2_tags' = id3v2_tags
          /\ pos' = MarkerStart + 3]_vars

\* C13: with a Common chunk of bit depth 9..16, C channels and F frames and a
\* Sound payload of at least 2 * F * C bytes, samples returns exactly F * C
\* values in frame-major, channel-minor order, and value k is the big-endian
\* 16-bit integer made of the payload bytes 2k and 2k + 1
C13_Samples16Bit ==
    points # None =>
        LET c == LastArg("set_common")[1]
            payload == LastArg("set_sound")[1].sound_data
            F == c.num_sample_frames
            C == c.num_channels
        IN  (c.bit_rate \in 9..16 /\ C >= 0 /\ Len(payload) >= 2 * F * C) =>
                /\ points[1].ok
                /\ Len(points[1].vals) = F * C
                /\ \A frame \in 0..(F - 1) : \A channel \in 0..(C - 1) :
                       LET k == frame * C + channel
                       IN  points[1].vals[k + 1]
                             = payload[2 * k + 1] * 256 + payload[2 * k + 2]

\* 2 channels, 4 frames, 16 bits and a 16-byte payload 01 02 .. 10: 8 values
C13_Witness ==
    /\ points # None
    /\ LastArg("set_common")[1].num_channels = 2
    /\ LastArg("set_common")[1].num_sample_frames = 4
    /\ LastArg("set_common")[1].bit_rate = 16
    /\ Len(LastArg("set_sound")[1].sound_data) = 16
    /\ points[1].ok
    /\ points[1].vals = <<258, 772, 1286, 1800, 2314, 2828, 3342, 3856>>

\* C14: with a Sound payload long enough, samples is total for every bit depth
\* b >= 1: it reads ceil(b / 8) bytes for each point and returns
\* num_sample_frames * num_channels values without a panic
C14_SamplesTotal ==
    points # None =>
        LET c == LastArg("set_common")[1]
            payload == LastArg("set_sound")[1].sound_data
            n == c.num_sample_frames * c.num_channels
            width == (c.bit_rate + 7) \div 8
        IN  (c.bit_rate >= 1 /\ c.num_channels >= 0 /\ Len(payload) >= width * n) =>
                /\ points[1].ok
                /\ Len(points[1].vals) = n

\* the bytes the comments take in the stream when each text of odd length is
\* followed by its pad byte: 8 + count + (count mod 2) for each
RECURSIVE PaddedLen(_)
PaddedLen(comments) ==
    IF comments = <<>> THEN 0
    ELSE 8 + Head(comments).count + (Head(comments).count % 2)
           + PaddedLen(Tail(comments))

\* C15: CommentsChunk::parse consumes, past the size and the comment count,
\* 8 + count + (count mod 2) bytes for each comment it decodes: the pad byte
\* of a text of odd length is consumed with the comment
C15_CommentPadConsumed ==
    (LastIsChunk /\ last[1].id = COMMENTS /\ last[1].res.kind = "Some") =>
        last[1].res.pos = last[1].entry + 6 + PaddedLen(last[1].res.val.comments)

\* C16: for a Sound chunk of declared size s >= 8, SoundDataChunk::parse
\* started just past the tag and not stopped by a panic advances the stream by
\* 4 + s bytes in the skip and in the decode mode: the size field, the offset,
\* the block size and s - 8 sample bytes
C16_SoundSizeCountsHeader ==
    (/\ LastIsChunk
     /\ last[1].id = SOUND
     /\ last[1].res.kind \in {"Some", "None"}
     /\ read_i32_be(buf, last[1].entry) >= 8)
    => last[1].res.pos = last[1].entry + 4 + read_i32_be(buf, last[1].entry)

\* the outer tag of the stream is FORM with its size and, for a decoding scan,
\* the form type is AIFF
FormValidated ==
    /\ CanRead(buf, 0, 8)
    /\ Bytes(buf, 0, 4) = FORM
    /\ read_data => CanRead(buf, 0, 12) /\ Bytes(buf, 8, 4) = AIFF

\* C17: in every run of read, reader.form_chunk is absent before Done and in
\* every Failed state, and it becomes present only at the step from Scanning
\* to Done, where it takes the aggregate the scan built; no decoder is
\* dispatched on a sub-chunk before FormChunk::parse has accepted the outer
\* FORM tag and, in a decoding scan, the AIFF form type. So a scan that fails
\* or panics never exposes a partly filled aggregate.
C17_FormChunkOnlyAtDone ==
    /\ [](pc \in {"Initial", "Scanning", "Failed"} => form_chunk = None)
    /\ [][form_chunk' # form_chunk
          => pc = "Scanning" /\ pc' = "Done" /\ form_chunk' = form]_vars
    /\ [][(pc # "Initial" /\ last' # last)
          => pc \in {"Scanning", "Done"} /\ FormValidated]_vars

\* a decoding scan that dispatched two decoders and is Done: the aggregate it
\* built is present in reader.form_chunk
C17_Witness ==
    /\ pc = "Done"
    /\ read_data
    /\ Len(calls) = 2
    /\ form_chunk # None
    /\ form_chunk = form
    /\ form_chunk[1].common # None
    /\ form_chunk[1].texts # None

\* C18: every scan step that does not fail leaves the stream position strictly
\* greater than the position at which it read its tag, for every declared
\* size, zero and negative included; so no scan revisits a position forever
\* and every scan of a finite stream ends in Done or Failed
C18_ScanStepAdvances ==
    [][(CanScan /\ pc' = "Scanning") => pos' > pos]_vars

====
